---- MODULE Spec2Model ----
(***************************************************************************)
(* Approval-queue state machine of genie-in-the-bottle.                    *)
(*                                                                         *)
(* The store is the gib_tweets table (backend/src/database/                *)
(* handle_tweets_data.py).  Three entry points act on it:                  *)
(*   - juggernaut_webhook      (backend/src/main.py)       push ingestion  *)
(*   - telegram_webhook        (backend/src/main.py)       review replies  *)
(*   - process_substack_feeds  (backend/src/substack_processor.py)  pull   *)
(* Every database statement and every outbound call is one atomic step of  *)
(* the handler instance that performs it; each of them may raise.          *)
(***************************************************************************)
EXTENDS Integers, Sequences, FiniteSets, TLC

VARIABLES
    tweets,     \* gib_tweets: sequence of rows, the row id is the index
    clock,      \* the database clock behind created_at
    reviews,    \* review requests delivered to the chat: message id -> row id
    published,  \* posts accepted by X: x tweet id -> [rec, text]
    failures,   \* number of raised store/network errors so far
    replies,    \* number of review replies that found a record so far
    proc,       \* handler instances: position and local variables
    scope       \* the scenario explored: which instances run, and its bounds

vars == <<tweets, clock, reviews, published, failures, replies, proc, scope>>

----------------------------------------------------------------------------
(* Bounds of the model *)

\* one handler instance, events handled one after the other
MaxRecords == 2
MaxFailures == 1
MaxReplies == 2
MaxOutputs == 2

\* two handler instances, interleaved statement by statement
MaxRecordsConc == 2
MaxFailuresConc == 1
MaxRepliesConc == 1
MaxOutputsConc == 1

\* failures in the scenario with source items without a URL: a failure and the
\* failure of the notification that reports it
MaxFailuresUrls == 2

Procs == {"h1", "h2"}

----------------------------------------------------------------------------
(* Text: a string is a sequence of one-character strings *)

Newline == "\n"
Whitespace == {" ", "\t", Newline}

LowerChar(c) ==
    CASE c = "A" -> "a" [] c = "C" -> "c" [] c = "E" -> "e" [] c = "J" -> "j"
      [] c = "N" -> "n" [] c = "O" -> "o" [] c = "R" -> "r" [] c = "T" -> "t"
      [] c = "X" -> "x" [] c = "Y" -> "y" [] c = "S" -> "s"
      [] c = "D" -> "d" [] c = "F" -> "f" [] c = "U" -> "u"
      [] OTHER -> c

lower(s) == [i \in 1..Len(s) |-> LowerChar(s[i])]

RECURSIVE lstrip(_)
lstrip(s) == IF s # <<>> /\ Head(s) \in Whitespace THEN lstrip(Tail(s)) ELSE s

RECURSIVE rstrip(_)
rstrip(s) ==
    IF s # <<>> /\ s[Len(s)] \in Whitespace
    THEN rstrip(SubSeq(s, 1, Len(s) - 1))
    ELSE s

strip(s) == rstrip(lstrip(s))

RejectWords ==
    { <<"/", "r", "e", "j", "e", "c", "t">>,
      <<"r", "e", "j", "e", "c", "t">>,
      <<"n", "o">> }

ApproveWords ==
    { <<"/", "a", "p", "p", "r", "o", "v", "e">>,
      <<"a", "p", "p", "r", "o", "v", "e">>,
      <<"y", "e", "s">> }

----------------------------------------------------------------------------
(* Inputs *)

Url1 == <<"u", "1">>
Url2 == <<"u", "2">>
NoUrl == <<>>

Tweet1 == <<"t", "1">>
Tweet2 == <<"t", "2">>

\* curated articles the push adapter can fetch
Curated ==
    { [id |-> "a1", webUrl |-> Url1],
      [id |-> "a2", webUrl |-> Url2] }

\* feed entries the pull adapter can read
Entries ==
    { [title |-> "a1", link |-> Url1],
      [title |-> "a2", link |-> Url2] }

\* reply texts the reviewer can send
ReplyTexts ==
    { <<" ", "N", "o", " ">>,
      <<"R", "E", "J", "E", "C", "T">>,
      <<"y", "e", "s">>,
      <<"/", "a", "p", "p", "r", "o", "v", "e", Newline>>,
      <<" ", "O", "k", " ", "X">> }

NULL == 0

\* substack_accounts.yaml: the configured feed accounts
Accounts == <<"acc1", "acc2">>

----------------------------------------------------------------------------
(* The scenarios explored *)

\* one handler instance, events handled one after the other
SeqScope ==
    [procs |-> {"h1"}, records |-> MaxRecords, failures |-> MaxFailures,
     replies |-> MaxReplies, curated |-> Curated, accounts |-> Accounts,
     outputs |-> MaxOutputs, texts |-> ReplyTexts, observe |-> FALSE,
     entries |-> Entries, responses |-> {}]

\* two handler instances, interleaved statement by statement, on fewer inputs
ConcScope ==
    [procs |-> Procs, records |-> MaxRecordsConc, failures |-> MaxFailuresConc,
     replies |-> MaxRepliesConc,
     curated |-> {a \in Curated : a.id = "a1"},
     accounts |-> SubSeq(Accounts, 1, 1),
     outputs |-> MaxOutputsConc,
     texts |-> {<<" ", "N", "o", " ">>, <<"y", "e", "s">>},
     observe |-> FALSE, entries |-> Entries, responses |-> {}]

\* one handler instance and three feed accounts; what each feed read returned or
\* raised is kept with the pull run, on the inputs of the two-instance scenario
FeedScope ==
    [procs |-> {"h1"}, records |-> MaxRecordsConc, failures |-> MaxFailuresConc,
     replies |-> MaxRepliesConc,
     curated |-> {a \in Curated : a.id = "a1"},
     accounts |-> Accounts \o <<"acc3">>,
     outputs |-> MaxOutputsConc,
     texts |-> {<<" ", "N", "o", " ">>, <<"y", "e", "s">>},
     observe |-> TRUE, entries |-> Entries, responses |-> {}]

\* a curated article without webUrl and a feed entry without link
NoUrlArticle == [id |-> "a3", webUrl |-> NoUrl]
NoUrlEntry == [title |-> "a3", link |-> NoUrl]

\* a reply of white space only
BlankText == <<" ", Newline>>

\* one handler instance; some source items come without a URL, and the reviewer
\* may send a reply of white space only
UrlScope ==
    [procs |-> {"h1"}, records |-> MaxRecordsConc, failures |-> MaxFailuresUrls,
     replies |-> MaxRepliesConc,
     curated |-> {a \in Curated : a.id = "a1"} \cup {NoUrlArticle},
     accounts |-> Accounts,
     outputs |-> MaxOutputsConc,
     texts |-> {<<" ", "N", "o", " ">>, <<"y", "e", "s">>, BlankText},
     observe |-> TRUE,
     entries |-> {e \in Entries : e.title = "a1"} \cup {NoUrlEntry},
     responses |-> {}]

\* A response of the generation backend to the single-article prompt, as
\* parse_tweet_output sees it: text without a JSON object ("text"), braces
\* around invalid JSON ("badjson"), or a JSON object ("object") that has a
\* "tweets" member or not (key), which is an array or not (list), of the texts
\* tweets
Response(kind, key, list, array) ==
    [kind |-> kind, key |-> key, list |-> list, tweets |-> array]

\* {"tweets": [...]}
TweetsObject(array) == Response("object", TRUE, TRUE, array)

NotFound == <<"N", "o", "t", " ", "f", "o", "u", "n", "d">>

\* responses beside the plain ones: the sentinel in several cases, alone and
\* next to a tweet, an empty text, the sentinel inside a longer text, and
\* responses that are not of the agreed format
OddResponses ==
    { TweetsObject(<<NotFound>>),
      TweetsObject(<<lower(NotFound)>>),
      TweetsObject(<<<<"N", "O", "T", " ", "F", "O", "U", "N", "D">>, Tweet1>>),
      TweetsObject(<<<<>>, Tweet2>>),
      TweetsObject(<<NotFound \o <<".">>>>),
      Response("text", FALSE, FALSE, <<>>),
      Response("badjson", FALSE, FALSE, <<>>),
      Response("object", FALSE, FALSE, <<>>),
      Response("object", TRUE, FALSE, <<>>) }

\* one handler instance, one feed account; the generation backend also returns
\* the odd responses, and the pull run keeps what it received
GenScope ==
    [procs |-> {"h1"}, records |-> MaxRecordsConc, failures |-> MaxFailuresConc,
     replies |-> MaxRepliesConc,
     curated |-> {a \in Curated : a.id = "a1"},
     accounts |-> SubSeq(Accounts, 1, 1),
     outputs |-> MaxOutputsConc,
     texts |-> {<<" ", "N", "o", " ">>, <<"y", "e", "s">>},
     observe |-> TRUE, entries |-> Entries,
     responses |-> OddResponses]

----------------------------------------------------------------------------
(* The store: handle_tweets_data.py *)

Ids(t) == 1..Len(t)

\* INSERT ... VALUES (..., approval_status, 'pending', telegram_message_id);
\* created_at is the clock value at the insert
create_tweet_record(t, article_id, tweet_text, web_url, approval_status, now) ==
    Append(t, [article_id |-> article_id,
               tweet_text |-> tweet_text,
               web_url |-> web_url,
               approval_status |-> approval_status,
               post_status |-> "pending",
               telegram_message_id |-> NULL,
               x_tweet_id |-> NULL,
               created_at |-> now])

update_approval_status(t, record_id, approval_status) ==
    [t EXCEPT ![record_id].approval_status = approval_status]

\* an UPDATE of post_status alone: the stored post id is kept
update_post_status_only(t, record_id, post_status, x_tweet_id) ==
    [t EXCEPT ![record_id].post_status = post_status,
              ![record_id].x_tweet_id =
                    IF x_tweet_id = NULL THEN @ ELSE x_tweet_id]

update_post_status(t, record_id, post_status, x_tweet_id) ==
    [t EXCEPT ![record_id].post_status = post_status,
              ![record_id].x_tweet_id = x_tweet_id]

\* an UPDATE that matches no row
update_no_telegram_message_id(t, record_id, telegram_message_id) == t

\* an UPDATE without its WHERE clause
update_every_telegram_message_id(t, record_id, telegram_message_id) ==
    [r \in DOMAIN t |-> [t[r] EXCEPT !.telegram_message_id = telegram_message_id]]

update_telegram_message_id(t, record_id, telegram_message_id) ==
    [t EXCEPT ![record_id].telegram_message_id = telegram_message_id]

\* a lookup without its WHERE clause: any row a review request was sent for
get_tweet_by_any_message_id(t, telegram_message_id) ==
    {r \in Ids(t) : t[r].telegram_message_id # NULL}

\* SELECT * ... WHERE telegram_message_id = %s LIMIT 1: any matching row
get_tweet_by_telegram_message_id(t, telegram_message_id) ==
    {r \in Ids(t) : t[r].telegram_message_id = telegram_message_id}

\* the selection with ORDER BY created_at DESC: a queued row of greatest created_at
get_latest_queued_tweet(t) ==
    {r \in Ids(t) :
        /\ t[r].approval_status = "queued"
        /\ \A q \in Ids(t) :
              t[q].approval_status = "queued" => t[r].created_at >= t[q].created_at}

\* SELECT * ... WHERE approval_status = 'queued' ORDER BY created_at ASC LIMIT 1:
\* any queued row of least created_at
get_earliest_queued_tweet(t) ==
    {r \in Ids(t) :
        /\ t[r].approval_status = "queued"
        /\ \A q \in Ids(t) :
              t[q].approval_status = "queued" => t[r].created_at <= t[q].created_at}

\* a snapshot that misses every stored URL
get_no_existing_web_urls(t) == {}

\* SELECT DISTINCT web_url ... WHERE web_url IS NOT NULL
get_all_existing_web_urls(t) == {t[r].web_url : r \in Ids(t)}

\* a pending check that never sees the pending row
is_any_tweet_pending_blind(t) == FALSE

\* SELECT COUNT(*) ... WHERE approval_status = 'pending'  > 0
is_any_tweet_pending(t) ==
    Cardinality({r \in Ids(t) : t[r].approval_status = "pending"}) > 0

----------------------------------------------------------------------------
(* Handler instances *)

\* pc: the statement the instance is at.  Locals of the handlers:
\*   juggernaut_webhook: article_map (the articles fetched, by id), gen
\*     (generated_tweets still to process)
\*   process_substack_feeds: existing (existing_urls), fetched (links of
\*     all_articles), base (rows stored at the start), feeds (what each feed
\*     read returned or raised, where the scenario keeps it), items (new_articles still
\*     to process), gen (generated_tweets still to process), own (rows inserted
\*     for the current article)
\*   telegram_webhook: reply_to (reply_to_message_id), text, rec (record_id),
\*     xid (x_tweet_id); each is kept until its last use
\*   send_earliest_queued_tweet_for_approval: caller, queued (record_id),
\*     msg (telegram_message_id)
\* payload is the request payload of juggernaut_webhook, <<>> when there is none
\* raw is the last response of the generation backend to the pull run and
\* whether parsing it raised, <<>> when there is none
\* resp is the response (exit status of the pull run); promos and notes count the
\* calls of send_earliest_queued_tweet_for_approval and send_status_notification
IdleProc ==
    [pc |-> "idle", caller |-> "none", article_map |-> {}, items |-> <<>>,
     gen |-> <<>>, own |-> {},
     existing |-> {}, fetched |-> {}, base |-> 0, feeds |-> <<>>,
     reply_to |-> NULL, text |-> <<>>, rec |-> NULL, xid |-> NULL,
     queued |-> NULL, msg |-> NULL,
     resp |-> [code |-> 0, message |-> "none"], promos |-> 0, notes |-> 0,
     payload |-> <<>>, raw |-> <<>>]

Running(q) == proc[q].pc \notin {"idle", "done"}

Start ==
    /\ tweets = <<>>
    /\ clock = 0
    /\ reviews = <<>>
    /\ published = <<>>
    /\ failures = 0
    /\ replies = 0
    /\ proc = [p \in Procs |-> IdleProc]

Init == Start /\ scope = SeqScope

InitConc == Start /\ scope = ConcScope

InitFeeds == Start /\ scope = FeedScope

InitUrls == Start /\ scope = UrlScope

InitGen == Start /\ scope = GenScope

\* an instance takes the next event; of two free instances the first takes it
Free(p) ==
    /\ p \in scope.procs
    /\ proc[p].pc = "idle"
    /\ p = "h2" => Running("h1")

CanFail == failures < scope.failures
Fail == failures' = failures + 1
NoFail == UNCHANGED failures

Goto(p, r) == proc' = [proc EXCEPT ![p] = r]

\* the handler is about to return: its locals are gone, its response and what it
\* invoked remain to be observed
Done(me, code, message) ==
    [IdleProc EXCEPT !.pc = "done", !.resp = [code |-> code, message |-> message],
                     !.promos = me.promos, !.notes = me.notes]

\* rows the running handlers may still insert
Reserved == LET n[S \in SUBSET Procs] ==
                    IF S = {} THEN 0
                    ELSE LET q == CHOOSE q \in S : TRUE
                         IN Len(proc[q].gen) + n[S \ {q}]
            IN n[Procs]

Room == scope.records - Len(tweets) - Reserved

\* sequences without repetition over S of length at most n
RECURSIVE Arrangements(_, _)
Arrangements(S, n) ==
    IF n = 0 THEN {<<>>}
    ELSE {<<>>} \cup
         UNION {{<<x>> \o a : a \in Arrangements(S \ {x}, n - 1)} : x \in S}

\* The insert of a row by instance p.  Every insert is a transaction of its own
\* on a connection of its own (db_connection.py), so the clock has advanced
\* since the last insert, unless another instance is running at the same time.
InsertRow(p, article_id, tweet_text, web_url) ==
    \E now \in {clock + 1} \cup
                (IF tweets # <<>> /\ \E q \in Procs \ {p} : Running(q)
                 THEN {clock} ELSE {}) :
        /\ clock' = now
        /\ tweets' = create_tweet_record(tweets, article_id, tweet_text, web_url,
                                         "queued", now)

----------------------------------------------------------------------------
(* send_earliest_queued_tweet_for_approval, handle_tweets_data.py:126-156 *)

\* the call: one more invocation by this handler.  Of the caller's locals only
\* record_id is used after the call (by the except branch of telegram_webhook)
CallPromote(me, caller) ==
    [IdleProc EXCEPT !.pc = "p_check", !.caller = caller, !.rec = me.rec,
                     !.promos = me.promos + 1, !.notes = me.notes]

\* the call returns normally to its caller
AfterPromote(me) ==
    CASE me.caller = "juggernaut" -> Done(me, 200, "Processing complete")
      [] me.caller = "reject" -> Done(me, 200, "Tweet rejected")
      [] me.caller = "approve" -> Done(me, 200, "Tweet posted")
      [] me.caller = "substack_nonew" -> Done(me, 0, "No new articles")
      [] OTHER -> Done(me, 0, "Processing complete")

\* the call raises (only the pending check is outside its try block)
RaisePromote(me) ==
    CASE me.caller = "approve" -> [me EXCEPT !.pc = "t_except"]
      [] me.caller \in {"juggernaut", "reject"} ->
            Done(me, 500, "Internal Server Error")
      [] OTHER -> Done(me, 1, "Substack processing failed")

\* if _is_any_tweet_pending(): return
IsAnyTweetPending(p) ==
    LET me == proc[p] IN
    /\ me.pc = "p_check"
    /\ UNCHANGED <<tweets, clock, reviews, published, replies, scope>>
    /\ \/ /\ is_any_tweet_pending(tweets)
          /\ Goto(p, AfterPromote(me))
          /\ NoFail
       \/ /\ ~is_any_tweet_pending(tweets)
          /\ Goto(p, [me EXCEPT !.pc = "p_select"])
          /\ NoFail
       \/ /\ CanFail
          /\ Goto(p, RaisePromote(me))
          /\ Fail

\* queued_tweet = get_earliest_queued_tweet(); if not queued_tweet: return
GetEarliestQueuedTweet(p) ==
    LET me == proc[p] IN
    /\ me.pc = "p_select"
    /\ UNCHANGED <<tweets, clock, reviews, published, replies, scope>>
    /\ \/ /\ get_earliest_queued_tweet(tweets) = {}
          /\ Goto(p, AfterPromote(me))
          /\ NoFail
       \/ /\ \E r \in get_earliest_queued_tweet(tweets) :
                Goto(p, [me EXCEPT !.pc = "p_send", !.queued = r])
          /\ NoFail
       \/ /\ CanFail
          /\ Goto(p, AfterPromote(me))
          /\ Fail

\* the failure of the send ignored: the call goes on to the pending write
SendRaisedIgnored(me) == [me EXCEPT !.pc = "p_pending"]

\* handle_tweets_data.py:155-156: send_tweet_for_approval raised; the except
\* branch logs and the call returns (the selected row is kept for observation
\* where the scope asks)
SendRaised(me) ==
    [AfterPromote(me) EXCEPT !.queued = IF scope.observe THEN me.queued ELSE NULL]

\* telegram_message_id = send_tweet_for_approval(...)
SendTweetForApproval(p) ==
    LET me == proc[p] IN
    /\ me.pc = "p_send"
    /\ UNCHANGED <<tweets, clock, published, replies, scope>>
    /\ \/ /\ reviews' = Append(reviews, me.queued)
          /\ Goto(p, [me EXCEPT !.pc = "p_store", !.msg = Len(reviews) + 1])
          /\ NoFail
       \/ /\ CanFail
          /\ UNCHANGED reviews
          /\ Goto(p, SendRaised(me))
          /\ Fail

\* update_telegram_message_id(record_id, telegram_message_id)
UpdateTelegramMessageId(p) ==
    LET me == proc[p] IN
    /\ me.pc = "p_store"
    /\ UNCHANGED <<clock, reviews, published, replies, scope>>
    /\ \/ /\ tweets' = update_telegram_message_id(tweets, me.queued, me.msg)
          /\ Goto(p, [me EXCEPT !.pc = "p_pending"])
          /\ NoFail
       \/ /\ CanFail
          /\ UNCHANGED tweets
          /\ Goto(p, AfterPromote(me))
          /\ Fail

\* update_approval_status(record_id, "pending")
UpdateApprovalPending(p) ==
    LET me == proc[p] IN
    /\ me.pc = "p_pending"
    /\ UNCHANGED <<clock, reviews, published, replies, scope>>
    /\ \/ /\ tweets' = update_approval_status(tweets, me.queued, "pending")
          /\ Goto(p, AfterPromote(me))
          /\ NoFail
       \/ /\ CanFail
          /\ UNCHANGED tweets
          /\ Goto(p, AfterPromote(me))
          /\ Fail

----------------------------------------------------------------------------
(* juggernaut_webhook, main.py:49-122 *)

\* keys the generation backend may return: article ids, known or not
BatchKeys == {a.id : a \in scope.curated} \cup {"zz"}

\* at most one generated tweet per article of the largest batch
MaxBatch == Cardinality(scope.curated)

\* the texts the backend may return against an article id: a tweet, and, where
\* the scope has the backend give odd responses, the 'Not found' of
\* BATCH_SYSTEM_PROMPT
BatchTexts == IF scope.responses = {} THEN {Tweet1} ELSE {Tweet1, NotFound}

\* request payloads; a field that is missing or empty is ""
Payloads == [user_id : {"", "u1"}, created_at : {"", "d1"}]

\* a validation that looks at user_id only
validate_user_id_only(payload) == payload.user_id # ""

\* _validate_juggernaut_payload, main.py:36-46: TRUE when no HTTPException
validate_juggernaut_payload(payload) ==
    payload.user_id # "" /\ payload.created_at # ""

\* what the handler has received, kept for observation where the scope asks
Received(r, payload, articles) ==
    IF scope.observe
    THEN [r EXCEPT !.payload = <<payload>>, !.article_map = articles]
    ELSE r

\* the except branch without the status notification
GenerationFailedSilently(me) ==
    Done(me, 500, "Batch tweet generation failed")

\* main.py:70-82: generate_tweets_batch raised; one status notification is
\* attempted, then HTTPException(500)
GenerationFailed(me) ==
    [Done(me, 500, "Batch tweet generation failed") EXCEPT !.notes = me.notes + 1]

\* main.py:52-82: the payload is validated, the curated batch fetched and the
\* tweets generated; none of these reads or writes gib_tweets
JuggernautReceive(p) ==
    LET me == proc[p] IN
    /\ Free(p)
    /\ UNCHANGED <<tweets, clock, reviews, published, replies, scope>>
    /\ \E payload \in Payloads :
        IF ~validate_juggernaut_payload(payload)
        THEN /\ Goto(p, Received(Done(me, 400, "Missing required fields"),
                                 payload, {}))
             /\ NoFail
        ELSE \/ /\ Goto(p, Received(Done(me, 200, "No articles found"),
                                    payload, {}))
                /\ NoFail
             \/ /\ \E articles \in SUBSET scope.curated \ {{}},
                      keys \in Arrangements(BatchKeys, MaxBatch),
                      texts \in [1..MaxBatch -> BatchTexts] :
                      /\ Len(keys) <= Room
                      /\ \A k \in Len(keys) + 1..MaxBatch : texts[k] = Tweet1
                      /\ Goto(p, [Received(me, payload, articles) EXCEPT
                              !.pc = "j_loop",
                              !.article_map = articles,
                              !.gen = [k \in 1..Len(keys) |->
                                          [article_id |-> keys[k],
                                           tweet_text |-> texts[k]]]])
                /\ NoFail
             \/ \* fetch_articles_by_user_and_date raises
                /\ CanFail
                /\ Goto(p, Received(Done(me, 500, "Internal Server Error"),
                                    payload, {}))
                /\ Fail
             \/ \* generate_tweets_batch raises; the notification is sent
                /\ CanFail
                /\ \E articles \in SUBSET scope.curated \ {{}} :
                      Goto(p, Received(GenerationFailed(me), payload, articles))
                /\ Fail
             \/ \* generate_tweets_batch raises; the notification raises too
                /\ failures + 2 <= scope.failures
                /\ \E articles \in SUBSET scope.curated \ {{}} :
                      Goto(p, Received(GenerationFailed(me), payload, articles))
                /\ failures' = failures + 2

\* a lookup that returns an article whatever the id
ArticleMapAny(articles, article_id) == articles

\* article_map.get(article_id)
ArticleMap(articles, article_id) == {a \in articles : a.id = article_id}

\* one iteration of: for tweet_data in generated_tweets
JuggernautLoop(p) ==
    LET me == proc[p] IN
    /\ me.pc = "j_loop"
    /\ UNCHANGED <<reviews, published, replies, scope>>
    /\ IF me.gen = <<>>
       THEN /\ Goto(p, CallPromote(me, "juggernaut"))
            /\ UNCHANGED <<tweets, clock>>
            /\ NoFail
       ELSE LET tweet_data == Head(me.gen)
                found == ArticleMap(me.article_map, tweet_data.article_id)
                next == [me EXCEPT !.gen = Tail(me.gen)]
            IN  /\ Goto(p, next)
                /\ IF found = {} \/ (\E a \in found : a.webUrl = NoUrl)
                   THEN /\ UNCHANGED <<tweets, clock>>
                        /\ NoFail
                   ELSE \/ /\ \E a \in found :
                                InsertRow(p, tweet_data.article_id,
                                          tweet_data.tweet_text, a.webUrl)
                           /\ NoFail
                        \/ /\ CanFail
                           /\ UNCHANGED <<tweets, clock>>
                           /\ Fail

----------------------------------------------------------------------------
(* telegram_webhook, main.py:125-185 *)

\* a message id that matches no review request (a reply to some other message)
OtherMessage == Len(reviews) + 1

\* main.py:128-139: parse_telegram_webhook and the reply check
TelegramReceive(p) ==
    LET me == proc[p] IN
    /\ Free(p)
    /\ UNCHANGED <<tweets, clock, reviews, published, failures, replies, scope>>
    /\ \/ Goto(p, Done(me, 200, "Not a message update"))
       \/ Goto(p, Done(me, 200, "Not a reply to a tweet"))
       \/ \E m \in 1..OtherMessage :
             Goto(p, [me EXCEPT !.pc = "t_lookup", !.reply_to = m])

\* reply_text and lower_text of main.py:150-152
reply_text(text) == strip(text)

\* lower_text taken from the raw text instead of reply_text
lower_text_untrimmed(text) == lower(text)

lower_text(text) == lower(reply_text(text))

\* a classification without the reject branch
DecisionWithoutReject(text) ==
    IF lower_text(text) \in ApproveWords THEN "approve" ELSE "edit"

\* the three-way classification of main.py:154-167
Decision(text) ==
    IF lower_text(text) \in RejectWords THEN "reject"
    ELSE IF lower_text(text) \in ApproveWords THEN "approve"
    ELSE "edit"

\* main.py:160-171: the text handed to post_tweet
tweet_to_post(text, original_tweet, web_url) ==
    LET body == IF lower_text(text) \in ApproveWords
                THEN original_tweet
                ELSE reply_text(text)
    IN IF web_url # NoUrl THEN body \o <<Newline>> \o web_url ELSE body

\* main.py:141-152: tweet_record = get_tweet_by_telegram_message_id(...); the
\* text of the message is read once a record is found
TelegramLookup(p) ==
    LET me == proc[p]
        found == get_tweet_by_telegram_message_id(tweets, me.reply_to)
    IN
    /\ me.pc = "t_lookup"
    /\ UNCHANGED <<tweets, clock, reviews, published, scope>>
    /\ \/ /\ found = {}
          /\ Goto(p, Done(me, 200, "Tweet record not found"))
          /\ UNCHANGED replies
          /\ NoFail
       \/ /\ replies < scope.replies
          /\ replies' = replies + 1
          /\ \E r \in found, text \in scope.texts :
                Goto(p, [me EXCEPT !.pc = "t_decide", !.reply_to = NULL,
                                   !.rec = r, !.text = text])
          /\ NoFail
       \/ /\ CanFail
          /\ Goto(p, Done(me, 500, "Failed to read tweet record"))
          /\ UNCHANGED replies
          /\ Fail

\* update_approval_status(record_id, "rejected" | "approved")
TelegramDecide(p) ==
    LET me == proc[p] IN
    /\ me.pc = "t_decide"
    /\ UNCHANGED <<clock, reviews, published, replies, scope>>
    /\ \/ /\ Decision(me.text) = "reject"
          /\ tweets' = update_approval_status(tweets, me.rec, "rejected")
          /\ Goto(p, CallPromote([me EXCEPT !.text = <<>>], "reject"))
          /\ NoFail
       \/ /\ Decision(me.text) # "reject"
          /\ tweets' = update_approval_status(tweets, me.rec, "approved")
          /\ Goto(p, [me EXCEPT !.pc = "t_post"])
          /\ NoFail
       \/ /\ CanFail
          /\ UNCHANGED tweets
          /\ Goto(p, Done(me, 500, "Internal Server Error"))
          /\ Fail

\* x_tweet_id = post_tweet(tweet_to_post)
PostTweet(p) ==
    LET me == proc[p] IN
    /\ me.pc = "t_post"
    /\ UNCHANGED <<tweets, clock, reviews, replies, scope>>
    /\ \/ /\ published' = Append(published,
                [rec |-> me.rec,
                 text |-> tweet_to_post(me.text, tweets[me.rec].tweet_text,
                                        tweets[me.rec].web_url)])
          /\ Goto(p, [me EXCEPT !.pc = "t_posted", !.text = <<>>,
                                 !.xid = Len(published) + 1])
          /\ NoFail
       \/ /\ CanFail
          /\ UNCHANGED published
          /\ Goto(p, [me EXCEPT !.pc = "t_except", !.text = <<>>])
          /\ Fail

\* update_post_status(record_id, "posted", x_tweet_id)
UpdatePostStatusPosted(p) ==
    LET me == proc[p] IN
    /\ me.pc = "t_posted"
    /\ UNCHANGED <<clock, reviews, published, replies, scope>>
    /\ \/ /\ tweets' = update_post_status(tweets, me.rec, "posted", me.xid)
          /\ Goto(p, [me EXCEPT !.pc = "t_notify", !.xid = NULL])
          /\ NoFail
       \/ /\ CanFail
          /\ UNCHANGED tweets
          /\ Goto(p, [me EXCEPT !.pc = "t_except", !.xid = NULL])
          /\ Fail

\* send_status_notification("Tweet posted successfully"), then the promotion
NotifyPosted(p) ==
    LET me == proc[p]
        sent == [me EXCEPT !.notes = me.notes + 1]
    IN
    /\ me.pc = "t_notify"
    /\ UNCHANGED <<tweets, clock, reviews, published, replies, scope>>
    /\ \/ /\ Goto(p, CallPromote(sent, "approve"))
          /\ NoFail
       \/ /\ CanFail
          /\ Goto(p, [sent EXCEPT !.pc = "t_except"])
          /\ Fail

\* except: update_post_status(record_id, "failed")
UpdatePostStatusFailed(p) ==
    LET me == proc[p] IN
    /\ me.pc = "t_except"
    /\ UNCHANGED <<clock, reviews, published, replies, scope>>
    /\ \/ /\ tweets' = update_post_status(tweets, me.rec, "failed", NULL)
          /\ Goto(p, [me EXCEPT !.pc = "t_notify_failed"])
          /\ NoFail
       \/ /\ CanFail
          /\ UNCHANGED tweets
          /\ Goto(p, Done(me, 500, "Internal Server Error"))
          /\ Fail

\* send_status_notification("Failed to post tweet to X"); raise HTTPException(500)
NotifyFailed(p) ==
    LET me == proc[p]
        sent == [me EXCEPT !.notes = me.notes + 1]
    IN
    /\ me.pc = "t_notify_failed"
    /\ UNCHANGED <<tweets, clock, reviews, published, replies, scope>>
    /\ \/ /\ Goto(p, Done(sent, 500, "Failed to post tweet to X"))
          /\ NoFail
       \/ /\ CanFail
          /\ Goto(p, Done(sent, 500, "Internal Server Error"))
          /\ Fail

----------------------------------------------------------------------------
(* process_substack_feeds, substack_processor.py:29-152 *)

\* what read_substack_feed does for one account: it raises, or returns entries
FeedOutcomes ==
    {<<"error">>} \cup {<<"ok", a>> : a \in Arrangements(scope.entries, 1)}

\* the loop over the accounts left at the first feed that raises
RECURSIVE all_articles_until_error(_, _)
all_articles_until_error(outcome, k) ==
    IF k > Len(outcome) \/ outcome[k][1] # "ok" THEN <<>>
    ELSE outcome[k][2] \o all_articles_until_error(outcome, k + 1)

RECURSIVE all_articles(_, _)
all_articles(outcome, k) ==
    IF k > Len(outcome) THEN <<>>
    ELSE (IF outcome[k][1] = "ok" THEN outcome[k][2] ELSE <<>>)
            \o all_articles(outcome, k + 1)

\* no filtering against existing_urls
all_as_new_articles(articles, existing_urls) == articles

\* article.get("link", "") not in existing_urls
RECURSIVE new_articles(_, _)
new_articles(articles, existing_urls) ==
    IF articles = <<>> THEN <<>>
    ELSE (IF Head(articles).link \notin existing_urls
          THEN <<Head(articles)>> ELSE <<>>)
            \o new_articles(Tail(articles), existing_urls)

\* substack_processor.py:38-77: existing_urls is loaded, then the feeds are read
\* (no access to gib_tweets) and the entries filtered against existing_urls
SubstackStart(p) ==
    LET existing_urls == get_all_existing_web_urls(tweets)
        me == [proc[p] EXCEPT !.existing = existing_urls, !.base = Len(tweets)]
    IN
    /\ Free(p)
    /\ UNCHANGED <<tweets, clock, reviews, published, replies, scope>>
    /\ \/ /\ \E outcome \in [1..Len(scope.accounts) -> FeedOutcomes] :
                LET all == all_articles(outcome, 1)
                    new == new_articles(all, existing_urls)
                    read == [me EXCEPT
                                !.fetched = {all[k].link : k \in 1..Len(all)},
                                !.feeds = IF scope.observe THEN outcome
                                          ELSE <<>>]
                IN  IF all = <<>>
                    THEN Goto(p, [Done(read, 0, "No articles found")
                                    EXCEPT !.feeds = read.feeds])
                    ELSE IF new = <<>>
                    THEN Goto(p, [CallPromote(read, "substack_nonew")
                                    EXCEPT !.feeds = read.feeds])
                    ELSE Goto(p, [read EXCEPT !.pc = "s_generate",
                                              !.items = new])
          /\ NoFail
       \/ /\ CanFail
          /\ Goto(p, Done(proc[p], 1, "Substack processing failed"))
          /\ Fail

\* an entry without a link is processed like any other
missing_link_allowed(article_link) == FALSE

\* substack_processor.py:85: if not article_link
missing_link(article_link) == article_link = NoUrl

\* the responses the generation backend may give: up to scope.outputs tweets
\* in the agreed format, or one of the odd responses of the scope
Responses ==
    {TweetsObject([k \in 1..n |-> IF k = 1 THEN Tweet1 ELSE Tweet2]) :
        n \in 0..scope.outputs} \cup scope.responses

\* composer.py:62-63, 66, 70-71 (substack): what makes parse_tweet_output raise
parse_raises(openai_output) ==
    \/ openai_output.kind # "object"
    \/ openai_output.key /\ ~openai_output.list

\* the sentinel compared without folding the case
is_candidate_case_sensitive(tweet_text) ==
    tweet_text # <<>> /\ tweet_text # lower(NotFound)

\* composer.py:77 (substack): if tweet_text and tweet_text.lower() != "not found"
is_candidate(tweet_text) ==
    tweet_text # <<>> /\ lower(tweet_text) # lower(NotFound)

\* composer.py:69 (substack): parsed.get("tweets", [])
tweets_array(openai_output) ==
    IF openai_output.key THEN openai_output.tweets ELSE <<>>

\* composer.py:74-81 (substack): the list parse_tweet_output returns when it
\* does not raise
RECURSIVE parsed_tweets(_, _)
parsed_tweets(array, article_id) ==
    IF array = <<>> THEN <<>>
    ELSE (IF is_candidate(Head(array))
          THEN <<[article_id |-> article_id, tweet_text |-> Head(array)]>>
          ELSE <<>>)
            \o parsed_tweets(Tail(array), article_id)

parse_tweet_output(openai_output, article_id) ==
    parsed_tweets(tweets_array(openai_output), article_id)

\* what the pull run received from the backend, kept where the scope asks
Generated(r, openai_output) ==
    IF scope.observe
    THEN [r EXCEPT !.raw = <<[output |-> openai_output,
                              raised |-> parse_raises(openai_output)]>>]
    ELSE r

\* the failure of one article ends the run with the error answer
ProcessingFailedAborts(me) == Done(me, 1, "Substack processing failed")

\* substack_processor.py:130-136: except Exception around one article: the
\* failure is logged and the loop continues with the next article
ProcessingFailed(me) == [me EXCEPT !.items = Tail(me.items), !.raw = <<>>]

\* generated_tweets = generate_tweet_single(article, openai_client)
SubstackGenerate(p) ==
    LET me == proc[p] IN
    /\ me.pc = "s_generate"
    /\ UNCHANGED <<tweets, clock, reviews, published, replies, scope>>
    /\ IF me.items = <<>>
       THEN /\ Goto(p, CallPromote(me, "substack"))
            /\ NoFail
       ELSE LET article == Head(me.items)
                skip == [me EXCEPT !.items = Tail(me.items), !.raw = <<>>]
            IN  IF missing_link(article.link)
                THEN /\ Goto(p, skip)
                     /\ NoFail
                ELSE \/ /\ \E openai_output \in Responses :
                            LET generated_tweets ==
                                    parse_tweet_output(openai_output, article.title)
                            IN  /\ Len(generated_tweets) <= Room
                                /\ IF \/ parse_raises(openai_output)
                                      \/ generated_tweets = <<>>
                                   THEN Goto(p, Generated(skip, openai_output))
                                   ELSE Goto(p, Generated(
                                           [me EXCEPT !.pc = "s_create",
                                                      !.own = {},
                                                      !.gen = generated_tweets],
                                           openai_output))
                        /\ NoFail
                     \/ \* openai_client.generate raises
                        /\ CanFail
                        /\ Goto(p, ProcessingFailed(me))
                        /\ Fail

\* one iteration of: for tweet_data in generated_tweets
SubstackCreate(p) ==
    LET me == proc[p] IN
    /\ me.pc = "s_create"
    /\ UNCHANGED <<reviews, published, replies, scope>>
    /\ IF me.gen = <<>>
       THEN /\ Goto(p, [me EXCEPT !.pc = "s_generate", !.items = Tail(me.items)])
            /\ UNCHANGED <<tweets, clock>>
            /\ NoFail
       ELSE LET tweet_data == Head(me.gen)
                article == Head(me.items)
                next == [me EXCEPT !.gen = Tail(me.gen)]
            IN  IF tweet_data.tweet_text = <<>>
                THEN /\ Goto(p, next)
                     /\ UNCHANGED <<tweets, clock>>
                     /\ NoFail
                ELSE \/ /\ InsertRow(p, article.title, tweet_data.tweet_text,
                                     article.link)
                        /\ Goto(p, [next EXCEPT
                                        !.own = me.own \cup {Len(tweets) + 1}])
                        /\ NoFail
                     \/ /\ CanFail
                        /\ Goto(p, next)
                        /\ UNCHANGED <<tweets, clock>>
                        /\ Fail

----------------------------------------------------------------------------
(* The handler returns its response; the instance is free for the next event *)

Return(p) ==
    /\ proc[p].pc = "done"
    /\ Goto(p, IdleProc)
    /\ UNCHANGED <<tweets, clock, reviews, published, failures, replies, scope>>

Step(p) ==
    \/ JuggernautReceive(p)
    \/ JuggernautLoop(p)
    \/ TelegramReceive(p)
    \/ TelegramLookup(p)
    \/ TelegramDecide(p)
    \/ PostTweet(p)
    \/ UpdatePostStatusPosted(p)
    \/ NotifyPosted(p)
    \/ UpdatePostStatusFailed(p)
    \/ NotifyFailed(p)
    \/ SubstackStart(p)
    \/ SubstackGenerate(p)
    \/ SubstackCreate(p)
    \/ IsAnyTweetPending(p)
    \/ GetEarliestQueuedTweet(p)
    \/ SendTweetForApproval(p)
    \/ UpdateTelegramMessageId(p)
    \/ UpdateApprovalPending(p)
    \/ Return(p)

Next == \E p \in Procs : Step(p)

\* one handler instance: events are handled one after the other
Spec == Init /\ [][Next]_vars

\* two handler instances run concurrently, interleaved statement by statement
SpecConc == InitConc /\ [][Next]_vars

\* one handler instance, three feed accounts, the feed reads observed
SpecFeeds == InitFeeds /\ [][Next]_vars

\* one handler instance, source items with and without a URL
SpecUrls == InitUrls /\ [][Next]_vars

\* one handler instance, plain and odd responses of the generation backend
SpecGen == InitGen /\ [][Next]_vars

----------------------------------------------------------------------------
(* Properties *)

Pending(t) == {r \in Ids(t) : t[r].approval_status = "pending"}
Queued(t) == {r \in Ids(t) : t[r].approval_status = "queued"}

\* the handler instance that takes the step
Acting(p) == proc'[p] # proc[p]

\* C1: whatever the interleaving of concurrently running ingestion and reply
\* handlers that call create_tweet_record and
\* send_earliest_queued_tweet_for_approval, no two rows are pending at the same
\* time
C1_NoTwoPendingInterleaved ==
    \A r, q \in Ids(tweets) :
        /\ tweets[r].approval_status = "pending"
        /\ tweets[q].approval_status = "pending"
        => r = q

\* C2: when the push runs, pull runs and replies are handled one after the
\* other, at most one row is pending in every reachable state, also after a
\* failed review send, a failed publish or a failed store write
C2_AtMostOnePendingSequential == Cardinality(Pending(tweets)) <= 1

\* a row is pending while another waits in the queue, after an operation failed
\* and a reply was handled
C2_Witness ==
    /\ Cardinality(Pending(tweets)) = 1
    /\ Queued(tweets) # {}
    /\ failures > 0
    /\ replies > 0

\* C3: whatever replies arrive, also several replies to the same review
\* message, post_tweet succeeds at most once for a row: no row is published
\* twice
C3_NoRowPublishedTwice ==
    \A i, j \in 1..Len(published) :
        published[i].rec = published[j].rec => i = j

\* C4: a handled approve reply has called
\* send_earliest_queued_tweet_for_approval exactly once when it returns, whether
\* the publish call succeeded or raised
C4_ApproveAlwaysPromotesOnce ==
    \A p \in Procs :
        /\ proc[p].pc = "done"
        /\ proc[p].resp.message \in {"Tweet posted", "Failed to post tweet to X"}
        => proc[p].promos = 1

\* C5: when no row is pending and several rows are queued with distinct
\* created_at values, a promotion that makes a row pending makes the queued row
\* of smallest created_at pending, never a later one
C5_PromotesSmallestCreatedAt ==
    [][\A r \in Ids(tweets) :
          /\ tweets[r].approval_status = "queued"
          /\ tweets'[r].approval_status = "pending"
          /\ Pending(tweets) = {}
          /\ Cardinality(Queued(tweets)) > 1
          /\ \A a, b \in Queued(tweets) :
                a # b => tweets[a].created_at # tweets[b].created_at
          => \A q \in Queued(tweets) \ {r} :
                tweets[r].created_at < tweets[q].created_at]_vars

\* a promotion is about to make the selected row pending while no row is pending
\* and later rows are queued as well: the selected row is the oldest of them
C5_Witness ==
    \E p \in Procs :
        /\ proc[p].pc = "p_pending"
        /\ Pending(tweets) = {}
        /\ Cardinality(Queued(tweets)) > 1
        /\ proc[p].queued \in Queued(tweets)
        /\ \A q \in Queued(tweets) \ {proc[p].queued} :
              tweets[proc[p].queued].created_at < tweets[q].created_at

\* C6: in every reachable state a row with post_status 'posted' has
\* approval_status 'approved'
C6_PostedIsApproved ==
    \A r \in Ids(tweets) :
        tweets[r].post_status = "posted" => tweets[r].approval_status = "approved"

\* s is text without its leading and trailing whitespace
IsTrimOf(s, text) ==
    \E i \in 1..(Len(text) + 1), j \in 0..Len(text) :
        /\ s = SubSeq(text, i, j)
        /\ \A k \in 1..(i - 1) : text[k] \in Whitespace
        /\ \A k \in (j + 1)..Len(text) : text[k] \in Whitespace
        /\ s # <<>> => s[1] \notin Whitespace /\ s[Len(s)] \notin Whitespace

Trimmed(text) ==
    CHOOSE s \in {SubSeq(text, i, j) : i \in 1..(Len(text) + 1), j \in 0..Len(text)} :
        IsTrimOf(s, text)

\* a and b are equal up to the case of their letters
SameFolded(a, b) ==
    /\ Len(a) = Len(b)
    /\ \A k \in 1..Len(a) : LowerChar(a[k]) = LowerChar(b[k])

\* the text with the URL of the row on a line of its own, when the row has one
WithUrl(body, web_url) ==
    IF web_url = NoUrl THEN body ELSE body \o <<Newline>> \o web_url

\* C7: a reply is classified on its text, trimmed and compared without regard
\* to case.  One of /reject, reject, no rejects the row and publishes nothing.
\* One of /approve, approve, yes approves the row, and what is then published is
\* the stored text of the row.  Any other non-empty text approves the row, and
\* what is then published is the trimmed reply text in place of the stored text.
\* (What is published carries the URL of the row on a last line.)
C7_ReplyClassification ==
    [][\A p \in Procs :
        proc[p].pc \in {"t_decide", "t_post"} =>
        LET s == Trimmed(proc[p].text)
            rec == proc[p].rec
            rejects == \E w \in RejectWords : SameFolded(s, w)
            approves == \E w \in ApproveWords : SameFolded(s, w)
        IN
          /\ proc[p].pc = "t_decide" /\ tweets' # tweets =>
                /\ published' = published
                /\ Len(tweets') = Len(tweets)
                /\ \A r \in Ids(tweets) \ {rec} : tweets'[r] = tweets[r]
                /\ rejects =>
                      /\ tweets'[rec].approval_status = "rejected"
                      /\ proc'[p].pc \notin {"t_post", "t_posted"}
                /\ approves => tweets'[rec].approval_status = "approved"
                /\ s # <<>> /\ ~rejects => tweets'[rec].approval_status = "approved"
          /\ proc[p].pc = "t_post" /\ published' # published =>
                /\ ~rejects
                /\ published' = Append(published, published'[Len(published')])
                /\ published'[Len(published')].rec = rec
                /\ approves =>
                      published'[Len(published')].text =
                         WithUrl(tweets[rec].tweet_text, tweets[rec].web_url)
                /\ s # <<>> /\ ~approves =>
                      published'[Len(published')].text =
                         WithUrl(s, tweets[rec].web_url)]_vars

\* a row was rejected, and a reply that is neither a reject nor an approve word
\* was published in place of the stored text of its row
C7_Witness ==
    /\ \E r \in Ids(tweets) : tweets[r].approval_status = "rejected"
    /\ \E i \in 1..Len(published) :
          LET row == tweets[published[i].rec] IN
          /\ row.web_url # NoUrl
          /\ row.approval_status = "approved"
          /\ published[i].text # WithUrl(row.tweet_text, row.web_url)
          /\ published[i].text = WithUrl(<<"O", "k", " ", "X">>, row.web_url)

\* the reply handled by p answers a message that is the review request of no row
Unmatched(p) ==
    /\ proc[p].pc = "t_lookup"
    /\ \A r \in Ids(tweets) : tweets[r].telegram_message_id # proc[p].reply_to

\* C8: a reply to a message id that matches no stored row gets the result
\* "Tweet record not found" when the lookup returns (a failed store read gets
\* an error response); either way the handler returns without changing any row,
\* without publishing, without a review request and without promoting
C8_UnmatchedReplyChangesNothing ==
    [][\A p \in Procs :
          Unmatched(p) /\ Acting(p) =>
             /\ proc'[p].pc = "done"
             /\ failures' = failures =>
                   proc'[p].resp = [code |-> 200, message |-> "Tweet record not found"]
             /\ failures' # failures => proc'[p].resp.code = 500
             /\ proc'[p].promos = 0
             /\ proc'[p].notes = 0
             /\ tweets' = tweets
             /\ reviews' = reviews
             /\ published' = published]_vars

\* a reply that matched no row was answered "Tweet record not found" while a row
\* is under review and another is queued
C8_Witness ==
    \E p \in Procs :
        /\ proc[p].pc = "done"
        /\ proc[p].resp.message = "Tweet record not found"
        /\ Pending(tweets) # {}
        /\ Queued(tweets) # {}

\* the rows stored for a URL
RowsOf(u) == {r \in Ids(tweets) : tweets[r].web_url = u}

\* p is a pull run that has read its feeds and found entries to process
PullRun(p) == proc[p].pc \in {"s_generate", "s_create"}

\* C9 as stated: once a URL that an earlier run has stored is fetched again by
\* a separate pull run, exactly one row is stored for that URL
C9_ExactlyOneRowPerUrl ==
    \A p \in Procs :
        PullRun(p) =>
            \A u \in proc[p].existing \cap proc[p].fetched :
                Cardinality(RowsOf(u)) = 1

\* C9 as amended: a pull run that fetches a URL an earlier run has stored
\* creates no further row for it: the rows of that URL remain the ones stored
\* before the run started (one per tweet generated when it was first ingested)
C9_SecondRunAddsNoRowForUrl ==
    \A p \in Procs :
        PullRun(p) =>
            \A u \in proc[p].existing \cap proc[p].fetched :
                /\ RowsOf(u) # {}
                /\ RowsOf(u) \subseteq 1..proc[p].base

\* a pull run fetched a URL stored by an earlier run together with a new one,
\* and has stored a row for the new one only
C9_Witness ==
    \E p \in Procs :
        /\ proc[p].pc = "s_generate"
        /\ proc[p].items = <<>>
        /\ proc[p].existing \cap proc[p].fetched # {}
        /\ Len(tweets) > proc[p].base

\* C10: neither adapter creates a row for a source item whose URL was already
\* on a stored row before that source item was ingested, also when the earlier
\* row comes from an earlier entry of the same run (the rows created for the
\* source item itself, one per generated tweet, are its own)
C10_NoRowForStoredUrl ==
    [][\A p \in Procs :
          Acting(p) /\ Len(tweets') = Len(tweets) + 1
          => \A r \in Ids(tweets) \ proc[p].own :
                tweets[r].web_url # tweets'[Len(tweets')].web_url]_vars

\* the URLs on the rows that were stored when the pull run p started
StoredAtStart(p) == {tweets[r].web_url : r \in 1..proc[p].base}

\* C11: a pull run stores no row for a feed entry whose link is among the URLs
\* that were stored when the run started, so a run repeated after a partial
\* failure does not store the sources again that are already stored
C11_NoRowForSnapshotUrl ==
    [][\A p \in Procs :
          /\ proc[p].pc = "s_create"
          /\ Acting(p)
          /\ Len(tweets') > Len(tweets)
          => /\ tweets'[Len(tweets')].web_url \notin StoredAtStart(p)
             /\ tweets'[Len(tweets')].web_url = Head(proc[p].items).link]_vars

\* after an operation failed, a pull run has fetched a link that was stored when
\* it started, together with a link that was not, and has just stored a row for
\* the latter
C11_Witness ==
    \E p \in Procs :
        /\ proc[p].pc = "s_create"
        /\ proc[p].own # {}
        /\ failures > 0
        /\ StoredAtStart(p) \cap proc[p].fetched # {}
        /\ \A r \in proc[p].own : tweets[r].web_url \notin StoredAtStart(p)

\* the entries returned by the feeds that were read without an error
Collected(feeds) ==
    UNION {{feeds[i][2][k] : k \in 1..Len(feeds[i][2])} :
              i \in {i \in 1..Len(feeds) : feeds[i][1] = "ok"}}

\* C12: in a pull run over several feeds, a feed whose read raises does not
\* end the run: the entries of every other feed are collected, and those whose
\* link is not stored yet are the ones the run goes on to process
C12_FeedFailureIsolated ==
    [][\A p \in Procs :
          /\ proc[p].pc = "idle"
          /\ proc'[p].feeds # <<>>
          /\ \E i \in 1..Len(proc'[p].feeds) : proc'[p].feeds[i][1] = "error"
          /\ \E e \in Collected(proc'[p].feeds) :
                \A r \in Ids(tweets) : tweets[r].web_url # e.link
          => /\ proc'[p].pc = "s_generate"
             /\ proc'[p].fetched = {e.link : e \in Collected(proc'[p].feeds)}
             /\ {proc'[p].items[k] : k \in 1..Len(proc'[p].items)} =
                   {e \in Collected(proc'[p].feeds) :
                       \A r \in Ids(tweets) : tweets[r].web_url # e.link}]_vars

\* of three feeds the second raised; the entries of the first and of the third
\* were collected, and the run has stored a row for each of them
C12_Witness ==
    \E p \in Procs :
        /\ proc[p].pc = "s_generate"
        /\ proc[p].items = <<>>
        /\ Len(proc[p].feeds) = 3
        /\ proc[p].feeds[2] = <<"error">>
        /\ proc[p].feeds[1][1] = "ok" /\ proc[p].feeds[1][2] # <<>>
        /\ proc[p].feeds[3][1] = "ok" /\ proc[p].feeds[3][2] # <<>>
        /\ \A i \in {1, 3} :
              \E r \in (proc[p].base + 1)..Len(tweets) :
                 tweets[r].web_url = proc[p].feeds[i][2][1].link

\* the generated entry the push run p is about to process answers an article
\* of the batch
Matches(p) ==
    \E a \in proc[p].article_map : a.id = Head(proc[p].gen).article_id

\* C13: a generated entry whose key is the id of no article of the batch is
\* dropped and the loop goes on without raising; an entry whose key is the id of
\* an article of the batch is handled as usual: it is stored as a queued row with
\* that article's URL (unless the store write itself fails, or the article has
\* no URL)
C13_UnknownKeyDropped ==
    [][\A p \in Procs :
          proc[p].pc = "j_loop" /\ proc[p].gen # <<>> /\ Acting(p) =>
             /\ proc'[p].pc = "j_loop"
             /\ proc'[p].gen = Tail(proc[p].gen)
             /\ ~Matches(p) => tweets' = tweets /\ failures' = failures
             /\ /\ Matches(p)
                /\ failures' = failures
                /\ \A a \in proc[p].article_map :
                      a.id = Head(proc[p].gen).article_id => a.webUrl # NoUrl
                => /\ Len(tweets') = Len(tweets) + 1
                   /\ SubSeq(tweets', 1, Len(tweets)) = tweets
                   /\ LET row == tweets'[Len(tweets')] IN
                      /\ row.article_id = Head(proc[p].gen).article_id
                      /\ row.tweet_text = Head(proc[p].gen).tweet_text
                      /\ row.approval_status = "queued"
                      /\ \E a \in proc[p].article_map :
                            a.id = row.article_id /\ a.webUrl = row.web_url]_vars

\* a push run has stored the row of an entry that answers an article of the
\* batch, and the entry it is about to process answers none
C13_Witness ==
    \E p \in Procs :
        /\ proc[p].pc = "j_loop"
        /\ Len(proc[p].gen) = 1
        /\ ~Matches(p)
        /\ tweets # <<>>
        /\ tweets[Len(tweets)].approval_status = "queued"
        /\ tweets[Len(tweets)].created_at = clock
        /\ \E a \in proc[p].article_map : a.id = tweets[Len(tweets)].article_id

\* the text published for row r when the reviewer approves it unchanged
ApprovedText(r) ==
    IF tweets[r].web_url # NoUrl
    THEN tweets[r].tweet_text \o <<Newline>> \o tweets[r].web_url
    ELSE tweets[r].tweet_text

\* a push run over two articles has stored two rows in a store that was empty
\* when it started (no review request was ever sent) and is about to promote
TwoEnqueued(p) ==
    /\ proc[p].pc = "j_loop" /\ proc[p].gen = <<>>
    /\ Cardinality(proc[p].article_map) = 2
    /\ Len(tweets) = 2 /\ reviews = <<>> /\ failures = 0

\* that push run has returned and no reply has come in yet
FirstPromoted(p) ==
    /\ proc[p].pc = "done"
    /\ proc[p].resp = [code |-> 200, message |-> "Processing complete"]
    /\ Len(tweets) = 2 /\ Len(reviews) = 1 /\ replies = 0 /\ failures = 0

\* the one reply so far approved the first row unchanged and its run has returned
FirstApproved(p) ==
    /\ proc[p].pc = "done"
    /\ proc[p].resp = [code |-> 200, message |-> "Tweet posted"]
    /\ Len(tweets) = 2 /\ replies = 1 /\ failures = 0
    /\ published = <<[rec |-> 1, text |-> ApprovedText(1)]>>

\* C14: end to end, without failures: a push run over two articles that stores
\* two rows in an empty store leaves both queued, the promotion at its end makes
\* the older row pending under the id of the review request just sent, and after
\* an approving reply to that request the first row is approved and posted and
\* the second row is pending under the id of a second review request
C14_EndToEnd ==
    \A p \in Procs :
        /\ TwoEnqueued(p) =>
              /\ \A r \in 1..2 :
                    /\ tweets[r].approval_status = "queued"
                    /\ tweets[r].telegram_message_id = NULL
                    /\ \E a \in proc[p].article_map :
                          a.id = tweets[r].article_id /\ a.webUrl = tweets[r].web_url
              /\ tweets[1].article_id # tweets[2].article_id
              /\ tweets[1].created_at < tweets[2].created_at
        /\ FirstPromoted(p) =>
              /\ tweets[1].approval_status = "pending"
              /\ tweets[1].telegram_message_id = 1
              /\ reviews = <<1>>
              /\ tweets[2].approval_status = "queued"
              /\ tweets[2].telegram_message_id = NULL
              /\ proc[p].promos = 1
        /\ FirstApproved(p) =>
              /\ tweets[1].approval_status = "approved"
              /\ tweets[1].post_status = "posted"
              /\ tweets[2].approval_status = "pending"
              /\ tweets[2].telegram_message_id = 2
              /\ reviews = <<1, 2>>
              /\ proc[p].promos = 1

\* the scenario has run to its end
C14_Witness ==
    \E p \in Procs :
        /\ FirstApproved(p)
        /\ tweets[1].tweet_text = Tweet1 /\ tweets[2].tweet_text = Tweet1
        /\ tweets[1].article_id # tweets[2].article_id
        /\ tweets[1].post_status = "posted"
        /\ tweets[2].approval_status = "pending"

\* instance p is in the except branch of telegram_webhook because post_tweet
\* raised: nothing was published for its row
PublishFailed(p) ==
    /\ proc[p].pc \in {"t_except", "t_notify_failed"}
    /\ \A i \in 1..Len(published) : published[i].rec # proc[p].rec

\* C15: when post_tweet raises while an approve reply is handled, the webhook
\* still answers with HTTP 200
C15_PublishFailureAnswers200 ==
    [][\A p \in Procs :
          PublishFailed(p) /\ proc'[p].pc = "done" => proc'[p].resp.code = 200]_vars

\* the statement instance p is at raises in this step
Raises(p) == Acting(p) /\ failures' = failures + 1

\* after the step instance p is handling an exception or has answered with an
\* error: the handlers answer 200, the scheduled pull run 0, when nothing raised
SeesError(p) ==
    \/ proc'[p].pc = "t_except"
    \/ proc'[p].pc = "done" /\ proc'[p].resp.code \notin {0, 200}

\* C16: when send_tweet_for_approval raises inside
\* send_earliest_queued_tweet_for_approval, the exception reaches the caller of
\* send_earliest_queued_tweet_for_approval
C16_SendFailurePropagates ==
    [][\A p \in Procs :
          proc[p].pc = "p_send" /\ Raises(p) => SeesError(p)]_vars

\* C17: when a write to the store raises during the promotion (the review
\* message id, the pending state) or during the resolution (the approval state,
\* the post status), the exception reaches the caller of that operation
C17_WriteFailurePropagates ==
    [][\A p \in Procs :
          /\ proc[p].pc \in {"p_store", "p_pending", "t_decide", "t_posted", "t_except"}
          /\ Raises(p)
          => SeesError(p)]_vars

\* instance p takes a push request in this step
PushReceived(p) == proc[p].pc = "idle" /\ proc'[p].payload # <<>>

\* C18: a push request whose payload lacks user_id or created_at (missing or
\* empty) is answered with HTTP 400 and nothing else has happened: no fetch and
\* no generation (nothing raised, no articles), no store write, no review
\* request, no notification and no promotion
C18_MissingFieldRejected ==
    [][\A p \in Procs :
          /\ PushReceived(p)
          /\ \/ proc'[p].payload[1].user_id = ""
             \/ proc'[p].payload[1].created_at = ""
          => /\ proc'[p].pc = "done"
             /\ proc'[p].resp = [code |-> 400, message |-> "Missing required fields"]
             /\ proc'[p].article_map = {}
             /\ proc'[p].promos = 0 /\ proc'[p].notes = 0
             /\ UNCHANGED <<tweets, clock, reviews, published, failures>>]_vars

\* a request with a user_id and no created_at was rejected over a store with a
\* queued row and a pending row
C18_Witness ==
    \E p \in Procs :
        /\ proc[p].pc = "done"
        /\ proc[p].resp.code = 400
        /\ proc[p].payload = <<[user_id |-> "u1", created_at |-> ""]>>
        /\ Pending(tweets) # {} /\ Queued(tweets) # {}

\* C19: when generate_tweets_batch raises in a push run, the run stores no row,
\* attempts exactly one status notification and answers with HTTP 500, whether
\* the notification is delivered or raises as well; no promotion follows
C19_GenerationFailure ==
    [][\A p \in Procs :
          /\ PushReceived(p)
          /\ proc'[p].article_map # {}
          /\ failures' > failures
          => /\ proc'[p].pc = "done"
             /\ proc'[p].resp.code = 500
             /\ proc'[p].notes = 1
             /\ proc'[p].promos = 0
             /\ UNCHANGED <<tweets, clock, reviews, published>>]_vars

\* the generation has failed for a fetched batch in a history of two raising
\* calls (the generation and the notification, or an earlier call and the
\* generation)
C19_Witness ==
    \E p \in Procs :
        /\ proc[p].pc = "done"
        /\ proc[p].payload # <<>>
        /\ proc[p].article_map # {}
        /\ proc[p].resp.code = 500
        /\ proc[p].notes = 1
        /\ failures = 2
        /\ tweets = <<>>

\* the dedup filter of a starting pull run keeps every fetched entry without a
\* link: it is not taken for a duplicate
NoUrlNotDuplicate(p) ==
    proc[p].pc = "idle" /\ proc'[p].feeds # <<>>
    => \A e \in Collected(proc'[p].feeds) :
          e.link = NoUrl =>
             /\ proc'[p].pc = "s_generate"
             /\ \E k \in 1..Len(proc'[p].items) : proc'[p].items[k] = e

\* the push loop is at a generated entry of an article that has no webUrl
NoUrlMatch(p) ==
    /\ proc[p].pc = "j_loop" /\ proc[p].gen # <<>>
    /\ \E a \in proc[p].article_map :
          a.id = Head(proc[p].gen).article_id /\ a.webUrl = NoUrl

\* C20 as stated: a source item without a URL is not taken for a duplicate and
\* is let through to the store: the tweet generated for it is stored as a queued
\* row (unless the store write itself raises)
C20_NoUrlAllowedThrough ==
    [][\A p \in Procs :
          /\ NoUrlNotDuplicate(p)
          /\ NoUrlMatch(p) /\ Acting(p) /\ failures' = failures
             => /\ Len(tweets') = Len(tweets) + 1
                /\ tweets'[Len(tweets')].article_id = Head(proc[p].gen).article_id
                /\ tweets'[Len(tweets')].approval_status = "queued"]_vars

\* C20 amended: a source item without a URL is not taken for a duplicate and no
\* row without a URL is ever stored, so the set of stored URLs never gets an
\* empty entry; the item is not let through: a pull run skips it before the
\* generation call, a push run drops the tweet generated for it
C20_NoUrlSkipped ==
    [][\A p \in Procs :
          /\ NoUrlNotDuplicate(p)
          /\ Len(tweets') > Len(tweets) => tweets'[Len(tweets')].web_url # NoUrl
          /\ NoUrlMatch(p) /\ Acting(p)
             => /\ proc'[p].pc = "j_loop"
                /\ proc'[p].gen = Tail(proc[p].gen)
                /\ UNCHANGED <<tweets, failures>>
          /\ /\ proc[p].pc = "s_generate" /\ proc[p].items # <<>>
             /\ Head(proc[p].items).link = NoUrl /\ Acting(p)
             => /\ proc'[p].pc = "s_generate"
                /\ proc'[p].items = Tail(proc[p].items)
                /\ UNCHANGED <<tweets, failures>>]_vars

\* a pull run that fetched an entry without a link and an entry with a link has
\* gone through both: a row is stored for the link, none for the other entry
C20_Witness ==
    \E p \in Procs :
        /\ proc[p].pc = "s_generate"
        /\ proc[p].items = <<>>
        /\ NoUrlEntry \in Collected(proc[p].feeds)
        /\ \E e \in Collected(proc[p].feeds) :
              /\ e.link # NoUrl
              /\ \E r \in (proc[p].base + 1)..Len(tweets) : tweets[r].web_url = e.link
        /\ \A r \in Ids(tweets) : tweets[r].web_url # NoUrl

\* text is the "Not found" sentinel in some letter case
IsSentinel(text) == lower(text) = <<"n", "o", "t", " ", "f", "o", "u", "n", "d">>

\* the texts of a sequence of generated entries, in order
TextsOf(gen) == [k \in 1..Len(gen) |-> gen[k].tweet_text]

\* the subsequence of array without empty texts and sentinels
RECURSIVE WithoutSentinels(_)
WithoutSentinels(array) ==
    IF array = <<>> THEN <<>>
    ELSE IF Head(array) = <<>> \/ IsSentinel(Head(array))
         THEN WithoutSentinels(Tail(array))
         ELSE <<Head(array)>> \o WithoutSentinels(Tail(array))

\* instance p, a pull run, receives a response of the generation backend in this
\* step and parse_tweet_output does not raise on it
Parsed(p) ==
    /\ proc[p].pc = "s_generate" /\ proc'[p].raw # <<>>
    /\ ~proc'[p].raw[1].raised

\* C21: in single-article mode a generated text that is the "Not found"
\* sentinel in any letter case is filtered out of the parsed list (the other
\* texts are kept in order), and a pull run never stores a row whose tweet_text
\* is the sentinel
C21_SentinelFiltered ==
    [][\A p \in Procs :
          /\ Parsed(p) =>
                LET kept == WithoutSentinels(proc'[p].raw[1].output.tweets) IN
                IF kept = <<>>
                THEN proc'[p].pc = "s_generate" /\ UNCHANGED tweets
                ELSE proc'[p].pc = "s_create" /\ TextsOf(proc'[p].gen) = kept
          /\ proc[p].pc = "s_create" /\ Acting(p) /\ Len(tweets') > Len(tweets)
                => ~IsSentinel(tweets'[Len(tweets')].tweet_text)]_vars

\* a pull run received the sentinel in capitals next to a tweet and has stored
\* a row for the tweet only
C21_Witness ==
    \E p \in Procs :
        /\ proc[p].pc = "s_create" /\ proc[p].gen = <<>>
        /\ proc[p].raw # <<>>
        /\ Len(proc[p].raw[1].output.tweets) = 2
        /\ IsSentinel(proc[p].raw[1].output.tweets[1])
        /\ proc[p].raw[1].output.tweets[1] # lower(NotFound)
        /\ Cardinality(proc[p].own) = 1
        /\ \A r \in proc[p].own : tweets[r].tweet_text = proc[p].raw[1].output.tweets[2]

\* the response is not of the agreed format {"tweets": [...]}: it is no JSON
\* object, or the object has no "tweets" member, or the member is no array
Malformed(openai_output) ==
    \/ openai_output.kind # "object"
    \/ ~openai_output.key
    \/ ~openai_output.list

\* C22: parse_tweet_output raises on every response that is malformed or cannot
\* be parsed, and returns an empty list only for a response of the agreed format
\* without candidates
C22_MalformedAlwaysRaises ==
    \A p \in Procs :
        proc[p].raw # <<>> /\ Malformed(proc[p].raw[1].output)
        => proc[p].raw[1].raised

\* C23: when a reply has been handled that resolved a row (rejected, or approved
\* with post_tweet succeeding or raising) and a row is queued, a row is pending
\* when the handler returns, provided nothing raised in the promotion: the
\* system does not rest with queued rows and no pending row
C23_QueueAdvancesAfterResolution ==
    [][\A p \in Procs :
          /\ proc'[p].pc = "done" /\ Acting(p)
          /\ Queued(tweets') # {}
          /\ \/ /\ proc'[p].resp.message \in {"Tweet rejected", "Tweet posted"}
                /\ failures' = 0
             \/ PublishFailed(p)
          => Pending(tweets') # {}]_vars

\* C24: whatever happens, also when a store write of the promotion raises, at
\* most one review request is sent for a row
C24_OneReviewPerRow ==
    \A i, j \in 1..Len(reviews) : reviews[i] = reviews[j] => i = j

\* instance p is in the except branch of telegram_webhook although post_tweet
\* succeeded: the status notification or the promotion raised
RaisedAfterPublish(p) ==
    /\ proc[p].pc = "t_except"
    /\ proc[p].notes > 0 \/ proc[p].promos > 0

\* C25: after an approve reply the row is 'failed' only if post_tweet raised
\* and 'posted' with its post id only if post_tweet succeeded: when post_tweet
\* raised the except branch does not leave the row 'posted', and when the
\* notification or the promotion raises after a successful post_tweet the row
\* stays 'posted' with its post id
C25_PostStatusFollowsPublish ==
    [][\A p \in Procs :
          /\ PublishFailed(p) /\ Acting(p) /\ proc[p].pc = "t_except"
                /\ failures' = failures
             => tweets'[proc[p].rec].post_status = "failed"
          /\ RaisedAfterPublish(p) /\ Acting(p)
             => /\ tweets'[proc[p].rec].post_status = "posted"
                /\ tweets'[proc[p].rec].x_tweet_id # NULL]_vars

\* C26: approval_status changes only from queued to pending, from pending to
\* approved and from pending to rejected: a reply changes no row that is not
\* pending, approved and rejected are final
C26_ApprovalTransitions ==
    [][\A r \in Ids(tweets) :
          tweets'[r].approval_status # tweets[r].approval_status
          => <<tweets[r].approval_status, tweets'[r].approval_status>> \in
                { <<"queued", "pending">>,
                  <<"pending", "approved">>,
                  <<"pending", "rejected">> }]_vars

\* the rows a review request was sent for
Reviewed == {reviews[i] : i \in 1..Len(reviews)}

\* C27: when send_tweet_for_approval raises in a promotion, the selected row
\* stays queued, the call stores no message id and makes no row pending (it
\* changes no row at all and ends); and a row is never pending without a review
\* request sent for it
C27_SendFailureLeavesQueued ==
    [][/\ \A p \in Procs :
             proc[p].pc = "p_send" /\ Raises(p)
             => /\ tweets' = tweets /\ reviews' = reviews
                /\ tweets'[proc[p].queued].approval_status = "queued"
                /\ proc'[p].pc \notin {"p_store", "p_pending"}
       /\ Pending(tweets') \subseteq Reviewed']_vars

\* a promotion whose send raised has returned: its row is queued without a
\* message id, no review request is out and no row is pending
C27_Witness ==
    \E p \in Procs :
        /\ proc[p].pc = "done"
        /\ proc[p].queued # NULL
        /\ tweets[proc[p].queued].approval_status = "queued"
        /\ tweets[proc[p].queued].telegram_message_id = NULL
        /\ reviews = <<>> /\ Pending(tweets) = {}
        /\ failures = 1

\* the statement instance p is at completes in this step without raising
Succeeds(p) == Acting(p) /\ failures' = failures

\* C28: a promotion that finds no pending row and selects a queued row, and in
\* which nothing raises, sends one review request for the selected row, then
\* stores the id of that request on the row, then sets the row to pending; each
\* of the three steps changes nothing else, so every other row is unchanged
C28_PromotionEffect ==
    [][\A p \in Procs :
          LET r == proc[p].queued IN
          /\ proc[p].pc = "p_send" /\ Succeeds(p)
             => /\ reviews' = Append(reviews, r)
                /\ tweets' = tweets
                /\ tweets[r].approval_status = "queued"
                /\ proc'[p].pc = "p_store"
          /\ proc[p].pc = "p_store" /\ Succeeds(p)
             => /\ reviews' = reviews
                /\ reviews[Len(reviews)] = r
                /\ tweets' = [tweets EXCEPT
                                 ![r].telegram_message_id = Len(reviews)]
                /\ proc'[p].pc = "p_pending"
          /\ proc[p].pc = "p_pending" /\ Succeeds(p)
             => /\ reviews' = reviews
                /\ tweets' = [tweets EXCEPT ![r].approval_status = "pending"]
                /\ proc'[p].pc = "done"]_vars

\* a promotion without failure has returned: of two rows the first is pending
\* under the id of the only review request, the second is as it was stored
C28_Witness ==
    \E p \in Procs :
        /\ proc[p].pc = "done" /\ proc[p].promos = 1
        /\ failures = 0 /\ replies = 0
        /\ Len(tweets) = 2 /\ reviews = <<1>>
        /\ tweets[1].approval_status = "pending"
        /\ tweets[1].telegram_message_id = 1
        /\ tweets[2].approval_status = "queued"
        /\ tweets[2].telegram_message_id = NULL
        /\ tweets[2].post_status = "pending"

\* after the step the promotion called by instance p has returned normally and
\* so has its caller
ReturnsNormally(p) ==
    proc'[p].pc = "done" /\ proc'[p].resp.code \in {0, 200}

\* C29: a promotion called while a row is pending sends no review request and
\* changes no row; a promotion that finds no queued row changes nothing either
\* and returns without an error
C29_PromotionNoOp ==
    [][\A p \in Procs :
          /\ proc[p].pc = "p_check" /\ Pending(tweets) # {} /\ Succeeds(p)
             => /\ tweets' = tweets /\ reviews' = reviews
                /\ ReturnsNormally(p)
          /\ proc[p].pc = "p_select" /\ Queued(tweets) = {} /\ Succeeds(p)
             => /\ tweets' = tweets /\ reviews' = reviews
                /\ ReturnsNormally(p)]_vars

\* a pull run that found nothing new has called the promotion while a row was
\* pending and another queued: the only review request is still the first one
C29_Witness ==
    \E p \in Procs :
        /\ proc[p].pc = "done"
        /\ proc[p].resp.message = "No new articles"
        /\ proc[p].promos = 1
        /\ failures = 0
        /\ Pending(tweets) = {1} /\ Queued(tweets) = {2}
        /\ reviews = <<1>>
        /\ tweets[2].telegram_message_id = NULL

\* instance p is about to act on a reject reply to the review request of a
\* pending row
RejectsPending(p) ==
    /\ proc[p].pc = "t_decide"
    /\ \E w \in RejectWords : SameFolded(Trimmed(proc[p].text), w)
    /\ tweets[proc[p].rec].approval_status = "pending"

\* C30: a reject reply to the review request of the pending row sets that row to
\* rejected and changes nothing else (its post_status stays as it was), then
\* calls send_earliest_queued_tweet_for_approval, once; post_tweet is not
\* called, neither before nor during that call, and the handler answers
\* 'Tweet rejected' having made that one call
C30_RejectEffect ==
    [][\A p \in Procs :
          /\ RejectsPending(p) /\ Succeeds(p)
             => /\ tweets' = [tweets EXCEPT ![proc[p].rec].approval_status = "rejected"]
                /\ published' = published
                /\ proc'[p].pc = "p_check" /\ proc'[p].caller = "reject"
                /\ proc'[p].promos = 1
          /\ proc[p].caller = "reject" /\ Acting(p)
             => /\ published' = published
                /\ proc'[p].promos = 1
                /\ proc'[p].pc \in {"p_check", "p_select", "p_send", "p_store",
                                    "p_pending", "done"}
          /\ Acting(p) /\ proc'[p].pc = "done"
                /\ proc'[p].resp.message = "Tweet rejected"
             => proc[p].caller = "reject" /\ proc'[p].promos = 1]_vars

\* a reject reply has been handled: the first row is rejected and unpublished,
\* the promotion has made the second row pending
C30_Witness ==
    \E p \in Procs :
        /\ proc[p].pc = "done"
        /\ proc[p].resp = [code |-> 200, message |-> "Tweet rejected"]
        /\ proc[p].promos = 1
        /\ published = <<>> /\ failures = 0
        /\ tweets[1].approval_status = "rejected"
        /\ tweets[1].post_status = "pending"
        /\ Len(tweets) = 2
        /\ tweets[2].approval_status = "pending"

\* the rows that have been sent for review and are pending or resolved
Requested(t) ==
    {r \in Ids(t) : t[r].approval_status \in {"pending", "approved", "rejected"}}

\* C31: no two rows that are pending, approved or rejected carry the same
\* telegram_message_id (every review request sent gets a fresh id), and a
\* message id is on at most one row at all, so the lookup by message id finds
\* at most one row
C31_MessageIdUnique ==
    /\ \A r1, r2 \in Requested(tweets) :
          tweets[r1].telegram_message_id = tweets[r2].telegram_message_id
          => r1 = r2
    /\ \A m \in 1..Len(reviews) :
          Cardinality({r \in Ids(tweets) : tweets[r].telegram_message_id = m}) <= 1

\* a resolved row and a pending row, each with the id of its own review request
C31_Witness ==
    /\ Len(tweets) = 2
    /\ tweets[1].approval_status = "approved"
    /\ tweets[2].approval_status = "pending"
    /\ tweets[1].telegram_message_id = 1
    /\ tweets[2].telegram_message_id = 2

\* C32: among queued rows of equal created_at the promotion selects the one
\* inserted first, the row of smallest id
C32_TieBrokenByInsertionOrder ==
    [][\A p \in Procs :
          proc[p].pc = "p_select" /\ proc'[p].pc = "p_send"
          => \A q \in Queued(tweets) :
                tweets[q].created_at = tweets[proc'[p].queued].created_at
                => proc'[p].queued <= q]_vars

\* instance p starts a pull run in this step whose feeds returned entries, all
\* with links that are on stored rows
AllFiltered(p) ==
    /\ proc[p].pc = "idle" /\ proc'[p].feeds # <<>>
    /\ Collected(proc'[p].feeds) # {}
    /\ \A e \in Collected(proc'[p].feeds) :
          \E r \in Ids(tweets) : tweets[r].web_url = e.link

\* C33: a pull run whose fetched entries are all filtered out as duplicates goes
\* straight to the promotion, which it calls once, and stores no row; the
\* promotion, when no row is pending, a row is queued and nothing raises,
\* selects a queued row, sends its review request and makes it pending
C33_NothingNewStillPromotes ==
    [][\A p \in Procs :
          /\ AllFiltered(p)
             => /\ proc'[p].pc = "p_check" /\ proc'[p].caller = "substack_nonew"
                /\ proc'[p].promos = 1
                /\ tweets' = tweets
          /\ proc[p].caller = "substack_nonew" /\ Acting(p)
             => /\ Len(tweets') = Len(tweets)
                /\ proc'[p].promos = 1
                /\ Succeeds(p) =>
                      /\ proc'[p].pc = "done"
                            => proc'[p].resp.message = "No new articles"
                      /\ proc[p].pc = "p_check" /\ Pending(tweets) = {}
                            => proc'[p].pc = "p_select"
                      /\ proc[p].pc = "p_select" /\ Queued(tweets) # {}
                            => proc'[p].pc = "p_send"
                               /\ proc'[p].queued \in Queued(tweets)
                      /\ proc[p].pc = "p_send"
                            => proc'[p].pc = "p_store"
                               /\ reviews' = Append(reviews, proc[p].queued)
                      /\ proc[p].pc = "p_store" => proc'[p].pc = "p_pending"
                      /\ proc[p].pc = "p_pending"
                            => tweets'[proc[p].queued].approval_status = "pending"]_vars

\* a pull run that found nothing new is promoting a row that an earlier run
\* left queued: its review request is sent and its id stored on the row
C33_Witness ==
    \E p \in Procs :
        /\ proc[p].pc = "p_pending"
        /\ proc[p].caller = "substack_nonew"
        /\ proc[p].promos = 1
        /\ proc[p].queued \in Queued(tweets)
        /\ Pending(tweets) = {}
        /\ reviews[Len(reviews)] = proc[p].queued
        /\ tweets[proc[p].queued].telegram_message_id = Len(reviews)

----------------------------------------------------------------------------
(* One failing article or candidate in a pull run *)

\* C34: in a pull run a generation that raises for one article, or an insert
\* that raises for one candidate, stores nothing and leaves the run in its loop
\* with the remaining articles and candidates, whose candidates are inserted as
\* queued rows; the loop calls the promotion once, when no article is left, and
\* not before
C34_FailureIsolated ==
    [][\A p \in Procs :
          LET me == proc[p] IN
          /\ me.pc = "s_generate" /\ Raises(p)
                => /\ proc'[p].pc = "s_generate"
                   /\ proc'[p].items = Tail(me.items)
                   /\ tweets' = tweets
          /\ me.pc = "s_create" /\ Raises(p)
                => /\ proc'[p].pc = "s_create"
                   /\ proc'[p].items = me.items
                   /\ proc'[p].gen = Tail(me.gen)
                   /\ tweets' = tweets
          /\ me.pc = "s_create" /\ Succeeds(p) /\ me.gen # <<>>
                /\ Head(me.gen).tweet_text # <<>>
                => /\ Len(tweets') = Len(tweets) + 1
                   /\ SubSeq(tweets', 1, Len(tweets)) = tweets
                   /\ tweets'[Len(tweets')].approval_status = "queued"
                   /\ tweets'[Len(tweets')].tweet_text = Head(me.gen).tweet_text
                   /\ tweets'[Len(tweets')].web_url = Head(me.items).link
          /\ me.pc \in {"s_generate", "s_create"} /\ Acting(p)
                => /\ me.promos = 0
                   /\ proc'[p].pc \in {"s_generate", "s_create", "p_check"}
                   /\ proc'[p].pc = "p_check"
                        <=> me.pc = "s_generate" /\ me.items = <<>>
                   /\ proc'[p].pc = "p_check"
                        => proc'[p].caller = "substack" /\ proc'[p].promos = 1]_vars

\* the generation for the first of two new articles raised; the run stored
\* nothing for it and is about to generate for the second
C34_Witness ==
    \E p \in Procs :
        /\ proc[p].pc = "s_generate"
        /\ proc[p].raw = <<>>
        /\ Len(proc[p].items) = 1
        /\ Cardinality(proc[p].fetched) = 2
        /\ proc[p].existing = {}
        /\ proc[p].base = Len(tweets)
        /\ failures = 1

----------------------------------------------------------------------------
(* The message id of a pending row *)

\* C35: in every reachable state every row with approval_status 'pending' has a
\* telegram_message_id that is not null and is the id returned by a successful
\* send of a review request for that row
C35_PendingHasReviewId ==
    \A r \in Ids(tweets) :
        tweets[r].approval_status = "pending"
        => /\ tweets[r].telegram_message_id # NULL
           /\ tweets[r].telegram_message_id \in 1..Len(reviews)
           /\ reviews[tweets[r].telegram_message_id] = r

\* a row is pending with the id of the second request sent for it: the id of
\* the first was never stored, its write raised
C35_Witness ==
    /\ Len(tweets) >= 1
    /\ tweets[1].approval_status = "pending"
    /\ tweets[1].telegram_message_id = 2
    /\ reviews = <<1, 1>>
    /\ failures = 1

----------------------------------------------------------------------------
(* A reply of white space only *)

\* C36: a reply whose text is empty after trimming never sets the row it
\* answers to approved and never makes the handler call post_tweet
C36_BlankReplyNeverPublishes ==
    [][\A p \in Procs :
          LET me == proc[p] IN
          me.pc \in {"t_decide", "t_post"} /\ strip(me.text) = <<>>
          => /\ tweets[me.rec].approval_status # "approved"
                => tweets'[me.rec].approval_status # "approved"
             /\ proc'[p].pc # "t_post"
             /\ published' = published]_vars

----------------------------------------------------------------------------
(* The sentinel in batch mode *)

\* C37: the push handler never stores a row whose tweet_text is the
\* "Not found" sentinel of the batch generation
C37_PushNeverStoresSentinel ==
    [][\A p \in Procs :
          proc[p].pc = "j_loop" /\ Acting(p) /\ Len(tweets') > Len(tweets)
          => ~IsSentinel(tweets'[Len(tweets')].tweet_text)]_vars

----------------------------------------------------------------------------
(* The promotion at the end of every pull run *)

\* C38: every pull run that returns normally (the scheduled run answers with
\* code 0) has called send_earliest_queued_tweet_for_approval exactly once,
\* also the run whose feeds gave no entry at all
C38_EveryPullRunPromotes ==
    \A p \in Procs :
        proc[p].pc = "done" /\ proc[p].resp.code = 0 => proc[p].promos = 1

----------------------------------------------------------------------------
(* Replies to review requests that were sent *)

\* C39: a reply to a review request that was sent is mapped to the row the
\* request was sent for, never answered 'Tweet record not found', whatever
\* raised after the send and however many requests were sent for the row
C39_SentReviewResolvable ==
    [][\A p \in Procs :
          /\ proc[p].pc = "t_lookup" /\ Succeeds(p)
          /\ proc[p].reply_to \in 1..Len(reviews)
          => /\ proc'[p].pc = "t_decide"
             /\ proc'[p].rec = reviews[proc[p].reply_to]]_vars

----------------------------------------------------------------------------
(* The stored post id *)

\* C40: in every reachable state a row has an x_tweet_id that is not null if
\* and only if its post_status is 'posted'; and every step that sets a row's
\* post_status to 'failed' leaves the row without x_tweet_id
C40_PostIdIffPosted ==
    [][\A r \in Ids(tweets') :
          /\ tweets'[r].x_tweet_id # NULL <=> tweets'[r].post_status = "posted"
          /\ tweets'[r].post_status \in {"pending", "posted", "failed"}]_vars

\* post_tweet succeeded and the row was 'posted' with its post id; then the
\* notification raised and the except branch has set the row to 'failed', which
\* removed the id
C40_Witness ==
    \E p \in Procs :
        /\ proc[p].pc = "t_notify_failed"
        /\ proc[p].notes > 0
        /\ tweets[proc[p].rec].post_status = "failed"
        /\ tweets[proc[p].rec].x_tweet_id = NULL
        /\ \E k \in 1..Len(published) : published[k].rec = proc[p].rec

====
